---- MODULE Spec2Model ----
(***************************************************************************)
(* FireworksEngine (three/FireworksEngine.ts): particle pool, burst        *)
(* lifecycle, scheduler, interactive trigger and dispose, as a state       *)
(* machine.                                                                *)
(*                                                                         *)
(* Units.  Time is counted in units of 0.01 s, so the frame clamp 0.05 s   *)
(* is 5.  Burst ids are counted in half milliseconds (IdUnit = 2), so an   *)
(* odd id is a performance.now() value with a fractional part.  Random     *)
(* draws are numerators over the denominator named at each use.  Products  *)
(* with decimal factors (0.3, 0.6) are evaluated in fixed point and        *)
(* truncated.  The world is cut to the plane z = 0: a position is [x, y].  *)
(***************************************************************************)
EXTENDS Integers, Sequences, FiniteSets, TLC

VARIABLES
  settings,        \* useSettingsStore.getState(): the fields the engine reads
  owners,          \* Int32Array owners: slot -> owner id or -1
  extras,          \* Float32Array extras: slot -> [life, age], with the slot's entries of
                   \* positions and velocities: y (in hundredths) and vy
  activeIndices,   \* number[] activeIndices
  freeIndices,     \* number[] freeIndices (a stack: push / pop at the end)
  bursts,          \* Burst[] bursts
  burstMap,        \* Map<number, Burst>: id -> uid of the burst object, 0 when the key is absent
  nextBurstTime,   \* nextBurstTime
  elapsed,         \* elapsed
  pc,              \* position of the running animate() call, "idle" between frames
  delta,           \* animate: const delta
  visibleLen,      \* maintainScheduler: visibleBursts.length
  floorI,          \* maintainScheduler: loop variable i of the floor loop
  bi,              \* animate: loop variable i of the burst loop (1-based)
  rafPending,      \* handle of the requested animation frame, 0 when none
  disposed,        \* dispose() has returned
  writtenFor,      \* history: slot -> uid of the burst setParticle wrote it for, 0 when free
  floorFailed,     \* history: floor spawns of the current tick that returned false
  ticks,           \* history: number of animate() calls started, saturating at 2
  tickStartOrphans,\* history: uids that were exploded with no live particle when the tick began
  triggerAdded,    \* history: bursts added by the triggerBurstAtScreen call made since the last frame, -1 when none
  candidate,       \* enforceSparsity: the position passed in (last call)
  sparse,          \* enforceSparsity: the position returned (last call)
  thrown,          \* an exception has left animate(): no further frame was requested
  runs,            \* the engines of two runs side by side (replay), << >> otherwise
  rand,            \* this.rand: the generator in use, named by the seed mulberry32 was given
  rng,             \* mulberry32 called on its own: [a, ref, k, refK, calls], << >> otherwise
  sunkAge,         \* history of the frames of the physics runs: slot -> age of its particle at the
                   \* first frame end that found it below the ground, -1 if none; << >> otherwise
  interaction,     \* useSettingsStore.getState().interaction: clickToBurst, followCursor
  pointerDown,     \* private pointerDown
  pointerLast,     \* private pointerLast (Vector2): clientX, clientY of the last burst the pointer made
  picked,          \* pickPaletteColor called on its own: [draw, color] of the last call, << >> before
  spawnLog         \* history of the scheduler's spawnBurst calls: abandoned (a call of the
                   \* current or last tick found no valid position), before (abandoned of the
                   \* tick before, until the scheduling step ends), attempted (a call was made
                   \* in this scheduling step), drawn (the candidates of the call just made)

vars == << settings, owners, extras, activeIndices, freeIndices, bursts, burstMap,
           nextBurstTime, elapsed, pc, delta, visibleLen, floorI, bi, rafPending,
           disposed, writtenFor, floorFailed, ticks, tickStartOrphans, triggerAdded,
           candidate, sparse, thrown, runs, spawnLog, picked, rand, rng, sunkAge,
           interaction, pointerDown, pointerLast >>

pointerVars == << interaction, pointerDown, pointerLast >>

\* the interaction settings of the store's defaults and the pointer fields as declared
defaultInteraction == [clickToBurst |-> TRUE, followCursor |-> FALSE]

PointerIdle ==
  /\ interaction = defaultInteraction
  /\ pointerDown = FALSE
  /\ pointerLast = [x |-> 0, y |-> 0]

---------------------------------------------------------------------------
(* Bounds of the model *)

MAX_PARTICLES == 4      \* pool capacity (24000 in the source), scaled down
MaxElapsed == 7         \* ticks are explored while elapsed stays within this
MaxBursts == 2          \* interactive triggers are explored while fewer bursts exist

(* Program constants *)

attempts == 8           \* sampleLaunchPosition: const attempts = 8
DeltaClamp == 5         \* animate: Math.min(0.05, ...) in units of 0.01 s
FreeSentinel == -1      \* owners fill(-1)
IdUnit == 2             \* ids are stored in half milliseconds

Slots == 0 .. (MAX_PARTICLES - 1)

ShellOrder == << "peony", "ring", "willow", "palm", "crossette", "comet" >>

---------------------------------------------------------------------------
(* Settings the engine reads.  The values that do not vary are fixed here; *)
(* the ones the claims range over are fields of the variable settings.     *)

launchRadius == 200
poissonRadius == 70
minDistance == 60
launchHeightMin == 0
launchHeightMax == 0
targetAltitudeMin == 100
targetAltitudeMax == 200
burstAltitudeMultiplier == 1
shellVelocity == 0
fuseDelay == 25
sparkLifetime == 5
TrailLife == 4
globalRate == 1
windX == 0
gravity == 0
drag == 0
turbulence == 0

\* The configurations explored: [playing, minSimultaneous, maxSimultaneous, stagger, enabled].
\* The control panel keeps 1 <= minSimultaneous <= maxSimultaneous; the stagger inputs
\* and the archetype check boxes are unconstrained.
BothTypes == {"peony", "crossette"}

Configurations ==
  { << TRUE, 1, 1, 0, BothTypes >>,
    << FALSE, 2, 2, 5, BothTypes >>,
    << TRUE, 1, 2, 5, BothTypes >>,
    << TRUE, 1, 2, 5, {} >> }

\* PaletteColor objects: id (nanoid), color, weight
\* (weights in tenths)
defaultPalette == << [id |-> 1, color |-> "gold", weight |-> 3] >>

Undefined == "undefined"

SettingsValues ==
  { [ playing |-> c[1], minSimultaneous |-> c[2], maxSimultaneous |-> c[3],
      staggerMin |-> c[4], staggerMax |-> c[4], enabled |-> c[5],
      particles |-> 1, fragmentCount |-> 2, sparkleChance |-> 1,
      reduceMotion |-> FALSE, palettes |-> defaultPalette, seed |-> 1337,
      groundCollision |-> "fade" ] : c \in Configurations }

(* Inputs: what the wall clock, the frame clock, the generator and the     *)
(* pointer can deliver.                                                     *)

RawDeltas == {2, 7}                  \* clock.getDelta(): below and above the clamp
IdValues == {2, 3}                   \* performance.now() + Math.floor(rand * 100000): 1.0, 1.5 ms
TypeDraws == {0, 3}                  \* rand in quarters
FuseDraws == {0}                     \* rand in eighths
AltDraws == {0}                      \* rand in halves
StaggerDraws == {0}                  \* rand in halves
LifeDraws == {0, 1}                  \* rand in thirds
FragDraws == {0, 1}                  \* rand in quarters
ColorDraws == {0}                    \* rand in quarters
TrailDraws == {0, 2}                 \* rand in quarters, against sparkleChance in quarters
LaunchXs == {0, 100}                 \* cos(angle) * launchRadius * sqrt(rand) for the drawn pairs
ClickXs == {0, 100}                  \* x of the ray / plane intersection

None == [x |-> -1, y |-> -1]

NoLog == [abandoned |-> 0, before |-> 0, attempted |-> 0, drawn |-> << >>]

---------------------------------------------------------------------------
(* Arithmetic helpers *)

Min(a, b) == IF a <= b THEN a ELSE b

Max(a, b) == IF a >= b THEN a ELSE b

\* THREE.MathUtils.lerp(a, b, t) with t = num / den
lerp(a, b, num, den) == a + ((b - a) * num) \div den

\* Vector3.distanceTo, squared
DistSq(p, q) == (p.x - q.x) * (p.x - q.x) + (p.y - q.y) * (p.y - q.y)

\* Vector3.length of (dx, dy) for vectors shorter than minDistance
VecLength(dx, dy) ==
  CHOOSE r \in 0 .. minDistance : r * r <= dx * dx + dy * dy /\ dx * dx + dy * dy < (r + 1) * (r + 1)

\* Array.prototype.indexOf, 1-based, 0 when absent
IndexOf(seq, v) ==
  IF \E i \in 1 .. Len(seq) : seq[i] = v
  THEN CHOOSE i \in 1 .. Len(seq) : seq[i] = v /\ \A j \in 1 .. (i - 1) : seq[j] # v
  ELSE 0

\* Array.prototype.splice(i, 1), 1-based
Splice(seq, i) == SubSeq(seq, 1, i - 1) \o SubSeq(seq, i + 1, Len(seq))

\* The value an Int32Array element holds after a store of the number id
\* (ToInt32 truncates the fractional part; ids here are below 2^31).
ToInt32(id) == (id \div IdUnit) * IdUnit

---------------------------------------------------------------------------
(* The mutable engine state the operations thread through *)

World ==
  [ owners |-> owners, extras |-> extras, active |-> activeIndices, free |-> freeIndices,
    bursts |-> bursts, map |-> burstMap, written |-> writtenFor, thrown |-> thrown ]

\* visibleBursts filter of maintainScheduler
IsVisible(b) == ~b.exploded \/ Len(b.indices) > 0

VisibleCount(bs) == Cardinality({ i \in 1 .. Len(bs) : IsVisible(bs[i]) })

\* position in bursts of the burst object with this uid, 0 when it was removed
BurstAt(bs, uid) ==
  IF \E i \in 1 .. Len(bs) : bs[i].uid = uid
  THEN CHOOSE i \in 1 .. Len(bs) : bs[i].uid = uid
  ELSE 0

FreshUid(bs) ==
  CHOOSE u \in 1 .. (Len(bs) + 1) :
    /\ \A i \in 1 .. Len(bs) : bs[i].uid # u
    /\ \A v \in 1 .. (u - 1) : \E i \in 1 .. Len(bs) : bs[i].uid = v

---------------------------------------------------------------------------
(* Particle pool *)

\* allocateParticle taking the oldest active slot when the free list is empty
allocateParticleReusing(w) ==
  IF Len(w.free) = 0
  THEN [ index |-> w.active[1], w |-> w ]
  ELSE [ index |-> w.free[Len(w.free)],
         w |-> [w EXCEPT !.free = SubSeq(w.free, 1, Len(w.free) - 1)] ]

\* allocateParticle: this.freeIndices.pop() ?? null; -1 stands for null
allocateParticle(w) ==
  IF Len(w.free) = 0
  THEN [ index |-> -1, w |-> w ]
  ELSE [ index |-> w.free[Len(w.free)],
         w |-> [w EXCEPT !.free = SubSeq(w.free, 1, Len(w.free) - 1)] ]

\* releaseParticle without the push onto freeIndices
releaseParticleNoPush(w, index) ==
  LET ownerId == w.owners[index]
      found == IF ownerId \in DOMAIN w.map THEN w.map[ownerId] ELSE 0
      k == IF ownerId # FreeSentinel /\ found # 0 THEN BurstAt(w.bursts, found) ELSE 0
      idx == IF k = 0 THEN 0 ELSE IndexOf(w.bursts[k].indices, index)
      bs == IF idx = 0 THEN w.bursts
            ELSE [w.bursts EXCEPT ![k].indices = Splice(w.bursts[k].indices, idx)]
  IN [w EXCEPT !.bursts = bs, !.owners[index] = FreeSentinel, !.written[index] = 0]

\* releaseParticle(index)
releaseParticle(w, index) ==
  LET ownerId == w.owners[index]
      found == IF ownerId \in DOMAIN w.map THEN w.map[ownerId] ELSE 0
      k == IF ownerId # FreeSentinel /\ found # 0 THEN BurstAt(w.bursts, found) ELSE 0
      idx == IF k = 0 THEN 0 ELSE IndexOf(w.bursts[k].indices, index)
      bs == IF idx = 0 THEN w.bursts
            ELSE [w.bursts EXCEPT ![k].indices = Splice(w.bursts[k].indices, idx)]
  IN [w EXCEPT !.bursts = bs,
               !.owners[index] = FreeSentinel,
               !.free = Append(w.free, index),
               !.written[index] = 0]

\* setParticle without the store into owners
setParticleNoOwner(w, index, position, vy, life, ownerId, uid) ==
  [w EXCEPT !.extras[index] = [life |-> life, age |-> 0, y |-> position.y, vy |-> vy],
            !.active = Append(w.active, index),
            !.written[index] = uid]

\* setParticle(index, position, velocity, ..., life, ..., ownerId); uid is the burst it
\* is written for
setParticle(w, index, position, vy, life, ownerId, uid) ==
  [w EXCEPT !.extras[index] = [life |-> life, age |-> 0, y |-> position.y, vy |-> vy],
            !.owners[index] = ToInt32(ownerId),
            !.active = Append(w.active, index),
            !.written[index] = uid]

---------------------------------------------------------------------------
(* Placement *)

\* validatePosition looking at the first burst only
validatePositionFirstBurst(bs, position, minDist) ==
  Len(bs) = 0 \/ DistSq(bs[1].position, position) >= minDist * minDist

\* validatePosition(position, minDistance)
validatePosition(bs, position, minDist) ==
  \A i \in 1 .. Len(bs) : DistSq(bs[i].position, position) >= minDist * minDist

\* the candidate sequences explored: attempts candidates, all equal or the last one different
CandSeqs ==
  { [i \in 1 .. attempts |-> IF i < k THEN a ELSE b] : a \in LaunchXs, b \in LaunchXs, k \in {1, attempts} }

\* sampleLaunchPosition settling for the last candidate when none is valid
sampleLaunchPositionLast(bs, cands, altDraw) ==
  LET pos(i) == [x |-> cands[i], y |-> lerp(launchHeightMin, launchHeightMax, altDraw, 2)]
      ok == { i \in 1 .. attempts : \A k \in 1 .. Len(bs) :
                DistSq(bs[k].position, pos(i)) >= poissonRadius * poissonRadius }
  IN IF ok = {} THEN pos(attempts)
     ELSE pos(CHOOSE i \in ok : \A j \in ok : i <= j)

\* sampleLaunchPosition: the first valid candidate of the attempts drawn, None for null
sampleLaunchPosition(bs, cands, altDraw) ==
  LET pos(i) == [x |-> cands[i], y |-> lerp(launchHeightMin, launchHeightMax, altDraw, 2)]
      ok == { i \in 1 .. attempts : validatePosition(bs, pos(i), poissonRadius) }
  IN IF ok = {} THEN None
     ELSE pos(CHOOSE i \in ok : \A j \in ok : i <= j)

\* Vector3.normalize() then addScaledVector(direction, minDistance) from origin:
\* three.js normalize is divideScalar(length() || 1), so a zero vector stays zero
\* and its length stays finite.
PushFrom(origin, dx, dy) ==
  LET len == VecLength(dx, dy)
      div == IF len = 0 THEN 1 ELSE len
  IN [x |-> origin.x + (dx * minDistance) \div div, y |-> origin.y + (dy * minDistance) \div div]

\* Number.isFinite(direction.length()) after normalize(): 0 or 1, always finite
DirectionIsFinite(dx, dy) == TRUE

\* one iteration of the loop of enforceSparsity
SparsityStep(result, b) ==
  IF DistSq(b.position, result) < minDistance * minDistance
  THEN LET dx == result.x - b.position.x
           dy == result.y - b.position.y
       IN IF DirectionIsFinite(dx, dy)
          THEN PushFrom(b.position, dx, dy)
          ELSE [x |-> b.position.x + minDistance, y |-> b.position.y]
  ELSE result

RECURSIVE SparsityLoop(_, _, _)
SparsityLoop(bs, i, result) ==
  IF i > Len(bs) THEN result ELSE SparsityLoop(bs, i + 1, SparsityStep(result, bs[i]))

\* enforceSparsity rejecting a crowded position (null) instead of correcting it
enforceSparsityRejecting(bs, position) ==
  IF validatePosition(bs, position, minDistance) THEN position ELSE None

\* enforceSparsity(position)
enforceSparsity(bs, position) == SparsityLoop(bs, 1, position)

---------------------------------------------------------------------------
(* Spawning *)

RECURSIVE WeightSum(_, _)
WeightSum(palette, n) ==
  IF n = 0 THEN 0 ELSE WeightSum(palette, n - 1) + palette[n].weight

\* pickPaletteColor returning the first colour whatever the draw
pickPaletteColorFirst(palette, colorDraw) ==
  IF Len(palette) > 0 THEN palette[1].color ELSE Undefined

\* pickPaletteColor: r = rand * total with rand = colorDraw / 4; the first colour whose
\* running sum reaches r, else palette[palette.length - 1], undefined for an empty palette
pickPaletteColor(palette, colorDraw) ==
  LET total == WeightSum(palette, Len(palette))
      hit == { i \in 1 .. Len(palette) : colorDraw * total <= 4 * WeightSum(palette, i) }
  IN IF hit # {} THEN palette[CHOOSE i \in hit : \A j \in hit : i <= j].color
     ELSE IF Len(palette) > 0 THEN palette[Len(palette)].color
     ELSE Undefined

\* enabledTypes: Object.keys(shellTypes).filter(enabled)
EnabledTypes(st) == SelectSeq(ShellOrder, LAMBDA t : t \in st.enabled)

\* weight of each enabled type (all 1 here)
TypeWeight(t) == 1

RECURSIVE PickLoop(_, _, _)
PickLoop(types, i, random4) ==
  IF i > Len(types) THEN types[1]
  ELSE IF random4 - 4 * TypeWeight(types[i]) <= 0 THEN types[i]
  ELSE PickLoop(types, i + 1, random4 - 4 * TypeWeight(types[i]))

\* an archetype choice that takes the first key of shellTypes, enabled or not
PickTypeFirstKey(types, typeDraw) == ShellOrder[1]

\* the weighted archetype choice of spawnBurst; typeDraw is rand in quarters
PickType(types, typeDraw) == PickLoop(types, 1, typeDraw * Len(types))

\* a scheduleNext that adds no stagger to the clock
scheduleNextNoStagger(st, now, staggerDraw) == now

\* scheduleNext: elapsed + lerp(staggerMin, staggerMax, rand) / Math.max(0.2, globalRate)
scheduleNext(st, now, staggerDraw) ==
  LET stagger == lerp(st.staggerMin, st.staggerMax, staggerDraw, 2)
      rate5 == Max(1, 5 * globalRate)
  IN now + (stagger * 5) \div rate5

\* The draws one spawnBurst call consumes
SpawnDraws ==
  [ type : TypeDraws, cands : CandSeqs, fuse : FuseDraws, alt : AltDraws,
    color : ColorDraws, id : IdValues, stagger : StaggerDraws ]

\* spawnBurst(position?, altitudeOverride?): hasPos tells whether a position was passed.
\* Returns the new bursts, burstMap and nextBurstTime, and ok = the boolean returned.
spawnBurst(st, bs, map, nbt, now, hasPos, position, altitudeOverride, d) ==
  LET failed == [ok |-> FALSE, bursts |-> bs, map |-> map, nextBurstTime |-> nbt]
      types == EnabledTypes(st)
      spawnPos == IF hasPos THEN position ELSE sampleLaunchPosition(bs, d.cands, d.alt)
  IN IF Len(types) = 0 THEN failed
     ELSE IF spawnPos = None THEN failed
     ELSE
       LET targetAltitude == IF hasPos THEN altitudeOverride
                             ELSE lerp(targetAltitudeMin, targetAltitudeMax, d.alt, 2)
           vertical == targetAltitude - spawnPos.y
           burst == [ uid |-> FreshUid(bs),
                      id |-> d.id,
                      type |-> PickType(types, d.type),
                      color |-> pickPaletteColor(st.palettes, d.color),
                      position |-> spawnPos,
                      velocity |-> shellVelocity + (vertical * 3) \div 10,
                      exploded |-> FALSE,
                      fuseTime |-> fuseDelay + (40 * d.fuse) \div 8 - 20,
                      age |-> 0,
                      particleCount |-> st.particles,
                      fragmentCount |-> st.fragmentCount,
                      indices |-> << >>,
                      reduceMotion |-> st.reduceMotion,
                      explosions |-> 0,
                      sparks |-> 0 ]
       IN [ ok |-> TRUE,
            bursts |-> Append(bs, burst),
            map |-> [map EXCEPT ![burst.id] = burst.uid],
            nextBurstTime |-> scheduleNext(st, now, d.stagger) ]

---------------------------------------------------------------------------
(* Explosion and ascent *)

\* Number of iterations of "for (i = 0; i < count; i++)" in explodeBurst, where
\* count = Math.min(Math.floor(particleCount * (reduceMotion ? 0.6 : 1)), MAX_PARTICLES / 4):
\* the quotient MAX_PARTICLES / 4 is not rounded, so the loop runs ceil(count) times.
ExplosionCount(b) ==
  LET want == IF b.reduceMotion THEN (b.particleCount * 6) \div 10 ELSE b.particleCount
  IN IF 4 * want <= MAX_PARTICLES THEN want ELSE (MAX_PARTICLES + 3) \div 4

\* life = sparkLifetime * (0.8 + rand * 0.6); lifeDraw is rand in thirds
SparkLife(lifeDraw) == (sparkLifetime * (24 + 6 * lifeDraw)) \div 30

\* velocity.y of an explosion particle: dir.y * speed * spread + |wind[1]| * 0.1, for a
\* direction in the horizontal plane and no wind
SparkVy == 0

\* offset.y * 0.05 of a fragment, offset.y = (rand - 0.2) * 30 with rand = 0.2
FragOffsetVy == 0

\* vel.y of an ascent trail particle: -10 - rand * 15 with rand = 0
TrailVy == -10

\* the fragment loop of a crossette particle: breaks when the pool is exhausted
RECURSIVE FragmentLoop(_, _, _, _)
FragmentLoop(w, k, f, life) ==
  IF f >= w.bursts[k].fragmentCount THEN w
  ELSE LET a == allocateParticle(w)
       IN IF a.index = -1 THEN w
          ELSE LET w1 == setParticle(a.w, a.index, w.bursts[k].position,
                                     (SparkVy * 6) \div 10 + FragOffsetVy, (life * 6) \div 10,
                                     w.bursts[k].id, w.bursts[k].uid)
               IN FragmentLoop([w1 EXCEPT !.bursts[k].indices = Append(@, a.index)],
                               k, f + 1, life)

\* the particle loop of explodeBurst; lifeU[i], fragU[i] are the draws of iteration i
RECURSIVE ExplodeLoop(_, _, _, _, _, _)
ExplodeLoop(w, k, i, count, lifeU, fragU) ==
  IF i > count THEN w
  ELSE LET a == allocateParticle(w)
           life == SparkLife(lifeU[i])
       IN IF a.index = -1 THEN ExplodeLoop(w, k, i + 1, count, lifeU, fragU)
          ELSE LET w1 == setParticle(a.w, a.index, w.bursts[k].position, SparkVy, life,
                                     w.bursts[k].id, w.bursts[k].uid)
                   w2 == [w1 EXCEPT !.bursts[k].indices = Append(@, a.index)]
                   w3 == IF w.bursts[k].type = "crossette" /\ fragU[i] < 1
                         THEN FragmentLoop(w2, k, 0, life) ELSE w2
               IN ExplodeLoop(w3, k, i + 1, count, lifeU, fragU)

\* explodeBurst(burst), burst = bursts[k]; the fields explosions and sparks are
\* history: the number of times explodeBurst ran for the burst and the number of
\* slots it obtained
explodeBurst(w, k, lifeU, fragU) ==
  LET w1 == ExplodeLoop(w, k, 1, ExplosionCount(w.bursts[k]), lifeU, fragU)
  IN IF w.bursts[k].color = Undefined
     THEN [w EXCEPT !.thrown = TRUE]      \* burst.color.color: TypeError
     ELSE
     [w1 EXCEPT !.bursts[k].exploded = TRUE,
                !.bursts[k].explosions = @ + 1,
                !.bursts[k].sparks = @ + Len(w1.bursts[k].indices) - Len(w.bursts[k].indices)]

\* the ascent trail branch of updateBurst; trailDraw is rand in quarters
EmitTrail(w, k, st, trailDraw) ==
  IF w.bursts[k].reduceMotion THEN w
  ELSE IF ~(trailDraw < st.sparkleChance) THEN w
  ELSE LET a == allocateParticle(w)
       IN IF a.index = -1 THEN w
          ELSE IF w.bursts[k].color = Undefined
          THEN [a.w EXCEPT !.thrown = TRUE]   \* burst.color.color: TypeError, slot already popped
          ELSE LET w1 == setParticle(a.w, a.index, w.bursts[k].position, TrailVy, TrailLife,
                                     w.bursts[k].id, w.bursts[k].uid)
               IN [w1 EXCEPT !.bursts[k].indices = Append(@, a.index)]

\* the test of updateBurst without its altitude half
ShouldExplodeOnFuse(b) == b.age >= b.fuseTime

\* the fuse / altitude test of updateBurst
ShouldExplode(b) == b.age >= b.fuseTime \/ b.position.y >= targetAltitudeMax

\* the ascent step leaving the age as it is
AscentNoAge(b, dt) ==
  LET vy == (b.velocity + gravity * dt) * (1 - drag * dt)
  IN [b EXCEPT !.position = [x |-> b.position.x + (windX * dt) * dt,
                             y |-> b.position.y + vy * dt],
               !.velocity = vy]

\* the ascent step of updateBurst: age, velocity and position after delta
Ascent(b, dt) ==
  LET vy == (b.velocity + gravity * dt) * (1 - drag * dt)
  IN [b EXCEPT !.age = b.age + dt,
               !.position = [x |-> b.position.x + (windX * dt) * dt,
                             y |-> b.position.y + vy * dt],
               !.velocity = vy]

\* updateBurst without its test of the exploded flag
updateBurstUnguarded(w, k, st, dt, lifeU, fragU, trailDraw) ==
  LET moved == Ascent(w.bursts[k], dt)
      w1 == [w EXCEPT !.bursts[k] = moved]
  IN IF ShouldExplode(moved)
     THEN explodeBurst(w1, k, lifeU, fragU)
     ELSE EmitTrail(w1, k, st, trailDraw)

\* updateBurst(burst, delta), burst = bursts[k]
updateBurst(w, k, st, dt, lifeU, fragU, trailDraw) ==
  IF w.bursts[k].exploded THEN w
  ELSE LET moved == Ascent(w.bursts[k], dt)
           w1 == [w EXCEPT !.bursts[k] = moved]
       IN IF ShouldExplode(moved)
          THEN explodeBurst(w1, k, lifeU, fragU)
          ELSE EmitTrail(w1, k, st, trailDraw)

\* the removal of the burst loop without the exploded half of its test
RemoveWhenEmpty(w, k) ==
  IF Len(w.bursts[k].indices) = 0
  THEN [w EXCEPT !.map[w.bursts[k].id] = 0,
                 !.bursts = Splice(w.bursts, k)]
  ELSE w

\* the removal test and removal of the burst loop of animate
RemoveIfDone(w, k) ==
  IF w.bursts[k].exploded /\ Len(w.bursts[k].indices) = 0
  THEN [w EXCEPT !.map[w.bursts[k].id] = 0,
                 !.bursts = Splice(w.bursts, k)]
  ELSE w

---------------------------------------------------------------------------
(* Particle integration *)

FadeCap == 20           \* Math.min(0.2, life): 0.2 s

\* the motion of one particle over delta: velocity.y after gravity, turbulence and drag,
\* then the position
Moved(e, dt) ==
  LET vy == (e.vy + gravity * dt + turbulence * dt) * Max(0, 1 - drag * dt)
  IN [e EXCEPT !.vy = vy, !.y = e.y + vy * dt, !.age = e.age + dt]

\* the ground test without the cut of the life under 'fade'
GroundedNoFade(e, st) ==
  IF e.y >= 0 \/ st.groundCollision = "fade" THEN e
  ELSE [e EXCEPT !.y = 0, !.vy = ((IF e.vy < 0 THEN -e.vy ELSE e.vy) * 4) \div 10]

\* the ground test damping the vertical velocity without reflecting it
GroundedNoAbs(e, st) ==
  IF e.y >= 0 THEN e
  ELSE IF st.groundCollision = "fade"
       THEN [e EXCEPT !.life = Min(FadeCap, e.life)]
       ELSE [e EXCEPT !.y = 0, !.vy = (e.vy * 4) \div 10]

\* the ground test: under 'fade' the life is cut to the cap, otherwise the particle is
\* put on the ground and its vertical velocity reflected and damped by 0.4
Grounded(e, st) ==
  IF e.y >= 0 THEN e
  ELSE IF st.groundCollision = "fade"
       THEN [e EXCEPT !.life = Min(FadeCap, e.life)]
       ELSE [e EXCEPT !.y = 0, !.vy = ((IF e.vy < 0 THEN -e.vy ELSE e.vy) * 4) \div 10]

\* updateParticles(delta): the loop over activeIndices from the end.  The release test
\* compares the new age with the life read at the top of the iteration.
RECURSIVE ParticlesLoop(_, _, _, _)
ParticlesLoop(w, st, i, dt) ==
  IF i = 0 THEN w
  ELSE LET index == w.active[i]
           life == w.extras[index].life
           spliced == [w EXCEPT !.active = Splice(w.active, i)]
       IN IF life <= 0
          THEN ParticlesLoop(releaseParticle(spliced, index), st, i - 1, dt)
          ELSE LET e == Grounded(Moved(w.extras[index], dt), st)
                   aged == [w EXCEPT !.extras[index] = e]
                   agedSpliced == [aged EXCEPT !.active = Splice(w.active, i)]
               IN IF e.age >= life
                  THEN ParticlesLoop(releaseParticle(agedSpliced, index), st, i - 1, dt)
                  ELSE ParticlesLoop(aged, st, i - 1, dt)

\* updateParticles starting below the last entry of activeIndices
updateParticlesButLast(w, st, dt) == ParticlesLoop(w, st, Max(0, Len(w.active) - 1), dt)

updateParticles(w, st, dt) == ParticlesLoop(w, st, Len(w.active), dt)

---------------------------------------------------------------------------
(* Frames: requestAnimationFrame / cancelAnimationFrame *)

RafHandle == 1          \* the handle requestAnimationFrame returns (a positive integer)

animationFrameId == 0   \* this.animationFrameId: never assigned, so undefined; no handle is 0

\* cancelAnimationFrame(handle) on the pending request
cancelAnimationFrame(pending, handle) == IF pending = handle THEN 0 ELSE pending

---------------------------------------------------------------------------
(* State after the field initialisers and the constructor body up to the   *)
(* call this.animate() of its last line.                                   *)

\* the engine after construction
Constructed ==
  /\ rand = settings.seed
  /\ owners = [s \in Slots |-> FreeSentinel]
  /\ extras = [s \in Slots |-> [life |-> 0, age |-> 0, y |-> 0, vy |-> 0]]
  /\ activeIndices = << >>
  /\ freeIndices = [i \in 1 .. MAX_PARTICLES |-> i - 1]
  /\ bursts = << >>
  /\ burstMap = [id \in IdValues |-> 0]
  /\ nextBurstTime = 0
  /\ elapsed = 0
  /\ pc = "ctor"
  /\ delta = 0
  /\ visibleLen = 0
  /\ floorI = 0
  /\ bi = 0
  /\ rafPending = 0
  /\ disposed = FALSE
  /\ writtenFor = [s \in Slots |-> 0]
  /\ floorFailed = 0
  /\ ticks = 0
  /\ tickStartOrphans = {}
  /\ triggerAdded = -1
  /\ candidate = None
  /\ sparse = None
  /\ spawnLog = NoLog
  /\ thrown = FALSE

InitEngine == settings \in SettingsValues /\ Constructed

Init == InitEngine /\ runs = << >> /\ picked = << >> /\ rng = << >> /\ sunkAge = << >> /\ PointerIdle

\* the state no step of a frame writes
otherVars == << runs, picked, rand, rng, sunkAge, pointerVars >>

poolVars == << owners, extras, activeIndices, freeIndices, writtenFor >>

\* bursts that have exploded and for which no slot is still written
Orphans == { bursts[i].uid : i \in { j \in 1 .. Len(bursts) :
               bursts[j].exploded /\ \A s \in Slots : writtenFor[s] # bursts[j].uid } }

\* animate, first part: delta, elapsed, and the visibleBursts filter of maintainScheduler.
\* The first call is the constructor's; later ones are animation frame callbacks.
AnimateBegin ==
  \E raw \in RawDeltas :
    /\ pc = "ctor" \/ (pc = "idle" /\ rafPending # 0)
    /\ elapsed + Min(DeltaClamp, raw) <= MaxElapsed
    /\ delta' = Min(DeltaClamp, raw)
    /\ elapsed' = elapsed + delta'
    /\ rafPending' = 0
    /\ visibleLen' = VisibleCount(bursts)
    /\ floorI' = VisibleCount(bursts)
    /\ pc' = "floor"
    /\ floorFailed' = 0
    /\ ticks' = Min(2, ticks + 1)
    /\ tickStartOrphans' = Orphans
    /\ triggerAdded' = -1
    /\ spawnLog' = [NoLog EXCEPT !.before = spawnLog.abandoned]
    /\ UNCHANGED << settings, thrown, otherVars, poolVars, bursts, burstMap, nextBurstTime, bi, disposed,
                    candidate, sparse >>

\* the record of one spawnBurst call of the scheduler in spawnLog
Logged(log, st, d, ok) ==
  [log EXCEPT !.attempted = 1,
              !.drawn = IF st.enabled = {} THEN << >> ELSE d.cands,
              !.abandoned = IF ~ok /\ st.enabled # {} THEN 1 ELSE @]

\* the floor loop stopping one burst short
FloorLoopStopsShort(st, i) == i + 1 < st.minSimultaneous

\* the loop test i < scheduler.minSimultaneous of the floor loop of maintainScheduler
FloorLoopContinues(st, i) == i < st.minSimultaneous

\* maintainScheduler: one iteration of the floor loop
FloorSpawn ==
  \E d \in SpawnDraws :
    /\ pc = "floor"
    /\ FloorLoopContinues(settings, floorI)
    /\ \E r \in { spawnBurst(settings, bursts, burstMap, nextBurstTime, elapsed, FALSE, None, 0, d) } :
          /\ bursts' = r.bursts
          /\ burstMap' = r.map
          /\ nextBurstTime' = r.nextBurstTime
          /\ floorFailed' = IF r.ok THEN floorFailed ELSE floorFailed + 1
          /\ spawnLog' = Logged(spawnLog, settings, d, r.ok)
    /\ floorI' = floorI + 1
    /\ UNCHANGED << settings, thrown, otherVars, poolVars, elapsed, pc, delta, visibleLen, bi, rafPending,
                    disposed, ticks, tickStartOrphans, triggerAdded, candidate, sparse >>

\* the test that guards the rate-scheduled spawn of maintainScheduler
RateDue(st, visible, now, nbt) ==
  st.playing /\ visible < st.maxSimultaneous /\ now >= nbt

\* maintainScheduler after the floor loop: the playing test and the rate-scheduled spawn
SchedulerRate ==
  \E d \in SpawnDraws :
    /\ pc = "floor"
    /\ ~FloorLoopContinues(settings, floorI)
    /\ \E r \in { IF RateDue(settings, visibleLen, elapsed, nextBurstTime)
                   THEN spawnBurst(settings, bursts, burstMap, nextBurstTime, elapsed, FALSE, None, 0, d)
                   ELSE [ok |-> FALSE, bursts |-> bursts, map |-> burstMap,
                         nextBurstTime |-> nextBurstTime] } :
          /\ bursts' = r.bursts
          /\ burstMap' = r.map
          /\ nextBurstTime' = r.nextBurstTime
          /\ bi' = Len(r.bursts)
          /\ spawnLog' = IF RateDue(settings, visibleLen, elapsed, nextBurstTime)
                         THEN Logged(spawnLog, settings, d, r.ok)
                         ELSE [spawnLog EXCEPT !.drawn = << >>]
    /\ pc' = "scheduled"
    /\ UNCHANGED << settings, thrown, otherVars, poolVars, elapsed, delta, visibleLen, floorI, rafPending,
                    disposed, floorFailed, ticks, tickStartOrphans, triggerAdded,
                    candidate, sparse >>

MaxCount == (MAX_PARTICLES + 3) \div 4

\* animate: one iteration of the burst loop (updateBurst, then the removal test).
\* An exception thrown by updateBurst leaves animate() before requestAnimationFrame.
UpdateBurstStep ==
  \E lifeU \in [1 .. MaxCount -> LifeDraws], fragU \in [1 .. MaxCount -> FragDraws],
     trailDraw \in TrailDraws :
    /\ pc \in {"scheduled", "bursts"}
    /\ bi >= 1
    /\ \E u \in { updateBurst(World, bi, settings, delta, lifeU, fragU, trailDraw) } :
       \E w \in { IF u.thrown THEN u ELSE RemoveIfDone(u, bi) } :
          /\ thrown' = w.thrown
          /\ pc' = IF w.thrown THEN "idle" ELSE "bursts"
          /\ owners' = w.owners
          /\ extras' = w.extras
          /\ activeIndices' = w.active
          /\ freeIndices' = w.free
          /\ writtenFor' = w.written
          /\ bursts' = w.bursts
          /\ burstMap' = w.map
    /\ bi' = bi - 1
    /\ spawnLog' = [NoLog EXCEPT !.abandoned = spawnLog.abandoned]
    /\ UNCHANGED << settings, otherVars, nextBurstTime, elapsed, delta, visibleLen, floorI,
                    rafPending, disposed, floorFailed, ticks, tickStartOrphans,
                    triggerAdded, candidate, sparse >>

\* animate, last part: updateParticles, render, requestAnimationFrame(this.animate)
AnimateEnd ==
  /\ pc \in {"scheduled", "bursts"}
  /\ bi = 0
  /\ \E w \in { updateParticles(World, settings, delta) } :
        /\ owners' = w.owners
        /\ extras' = w.extras
        /\ activeIndices' = w.active
        /\ freeIndices' = w.free
        /\ writtenFor' = w.written
        /\ bursts' = w.bursts
        /\ burstMap' = w.map
  /\ rafPending' = RafHandle
  /\ pc' = "idle"
  /\ floorFailed' = 0
  /\ tickStartOrphans' = {}
  /\ spawnLog' = [NoLog EXCEPT !.abandoned = spawnLog.abandoned]
  /\ UNCHANGED << settings, thrown, otherVars, nextBurstTime, elapsed, delta, visibleLen, floorI, bi,
                  disposed, ticks, triggerAdded, candidate, sparse >>

\* lerp(targetAltitudeMin, targetAltitudeMax, burstAltitudeMultiplier)
targetPlaneY == lerp(targetAltitudeMin, targetAltitudeMax, burstAltitudeMultiplier, 1)

\* triggerBurstAtScreen(x, y): cx is the x of the ray's intersection with the plane
triggerBurstAtScreen ==
  \E cx \in ClickXs, d \in SpawnDraws :
    /\ pc = "idle"
    /\ Len(bursts) < MaxBursts
    /\ \E r \in { LET intersection == [x |-> cx, y |-> targetPlaneY]
                   IN spawnBurst(settings, bursts, burstMap, nextBurstTime, elapsed, TRUE,
                                 enforceSparsity(bursts, intersection), targetPlaneY, d) } :
          /\ bursts' = r.bursts
          /\ burstMap' = r.map
          /\ nextBurstTime' = r.nextBurstTime
          /\ triggerAdded' = Len(r.bursts) - Len(bursts)
    /\ UNCHANGED << settings, thrown, otherVars, poolVars, elapsed, pc, delta, visibleLen, floorI, bi,
                    rafPending, disposed, floorFailed, ticks, tickStartOrphans,
                    candidate, sparse, spawnLog >>

\* dispose()
dispose ==
  /\ pc = "idle"
  /\ ~disposed
  /\ rafPending' = cancelAnimationFrame(rafPending, animationFrameId)
  /\ disposed' = TRUE
  /\ UNCHANGED << settings, thrown, otherVars, poolVars, bursts, burstMap, nextBurstTime, elapsed, pc, delta,
                  visibleLen, floorI, bi, floorFailed, ticks, tickStartOrphans,
                  triggerAdded, candidate, sparse, spawnLog >>

Next ==
  \/ AnimateBegin
  \/ FloorSpawn
  \/ SchedulerRate
  \/ UpdateBurstStep
  \/ AnimateEnd
  \/ triggerBurstAtScreen
  \/ dispose

Spec == Init /\ [][Next]_vars

\* The show without pointer input: every operation but the interactive trigger
NextAuto ==
  \/ AnimateBegin
  \/ FloorSpawn
  \/ SchedulerRate
  \/ UpdateBurstStep
  \/ AnimateEnd
  \/ dispose

SpecAuto == Init /\ [][NextAuto]_vars

---------------------------------------------------------------------------
(* The show while the palette is edited in the control panel: the store    *)
(* actions removePaletteColor and addPaletteColor run between frames.      *)

MaxPalette == 1                      \* colours the palette is grown to

engineVars == << owners, extras, activeIndices, freeIndices, writtenFor, bursts, burstMap,
                 nextBurstTime, elapsed, pc, delta, visibleLen, floorI, bi, rafPending,
                 disposed, floorFailed, ticks, tickStartOrphans, triggerAdded,
                 candidate, sparse, thrown, otherVars, spawnLog >>

\* removePaletteColor(id): palettes.filter((c) => c.id !== id)
removePaletteColor ==
  \E i \in 1 .. Len(settings.palettes) :
    /\ pc = "idle"
    /\ settings' = [settings EXCEPT !.palettes =
                      SelectSeq(@, LAMBDA c : c.id # settings.palettes[i].id)]
    /\ UNCHANGED engineVars

\* addPaletteColor(): appends a colour with a new id, '#ffffff', weight 0.2
addPaletteColor ==
  /\ pc = "idle"
  /\ Len(settings.palettes) < MaxPalette
  /\ LET used == { settings.palettes[i].id : i \in 1 .. Len(settings.palettes) }
         fresh == CHOOSE n \in 1 .. (MaxPalette + 1) : n \notin used
     IN settings' = [settings EXCEPT !.palettes =
                       Append(@, [id |-> fresh, color |-> "white", weight |-> 2])]
  /\ UNCHANGED engineVars

InitPalette == Init /\ ~settings.playing

NextPalette ==
  \/ AnimateBegin
  \/ FloorSpawn
  \/ SchedulerRate
  \/ UpdateBurstStep
  \/ AnimateEnd
  \/ removePaletteColor
  \/ addPaletteColor

SpecPalette == InitPalette /\ [][NextPalette]_vars

---------------------------------------------------------------------------
(* The show while the seed is changed in the control panel.                  *)
(*                                                                           *)
(* handleSeedReseed calls updateSetting(['scheduler', 'seed'], seed), which  *)
(* copies the whole store state with cloneState before writing the path.     *)
(* The state holds the store's functions, so structuredClone, where the      *)
(* browser has it, throws and nothing is written; otherwise the JSON copy is *)
(* written.  The engine listens with subscribe(selector, listener) on a      *)
(* store made by create() without the subscribeWithSelector middleware; the  *)
(* library is not part of the sources, and a store without that middleware   *)
(* registers the first argument only, so the listener that assigns this.rand *)
(* may never be called.  Both outcomes of each are kept.                     *)

SeedValues == {7, 1337}              \* Math.floor(Math.random() * 1000000)

handleSeedReseed ==
  \E seed \in SeedValues, written \in BOOLEAN, called \in BOOLEAN :
    /\ pc = "idle"
    /\ IF ~written
       THEN UNCHANGED << settings, rand >>
       ELSE /\ settings' = [settings EXCEPT !.seed = seed]
            /\ rand' = IF called /\ seed # settings.seed /\ ~disposed THEN seed ELSE rand
    /\ UNCHANGED << poolVars, bursts, burstMap, nextBurstTime, elapsed, pc, delta,
                    visibleLen, floorI, bi, rafPending, disposed, floorFailed, ticks,
                    tickStartOrphans, triggerAdded, candidate, sparse, thrown, spawnLog, runs,
                    picked, rng, sunkAge, pointerVars >>

InitSeed == Init /\ settings.playing /\ settings.maxSimultaneous = 1

NextSeed ==
  \/ AnimateBegin
  \/ FloorSpawn
  \/ SchedulerRate
  \/ UpdateBurstStep
  \/ AnimateEnd
  \/ handleSeedReseed

SpecSeed == InitSeed /\ [][NextSeed]_vars

---------------------------------------------------------------------------
(* mulberry32 on its own.                                                    *)
(*                                                                           *)
(* A 32-bit word is [hi, lo], two 16-bit halves.  The closure variable a is  *)
(* a JavaScript number, i.e. a double: it is kept as four 16-bit limbs, least *)
(* significant first, and every sum is rounded as a double rounds it (exact  *)
(* below 2^53, to the nearest even multiple of 2 from 2^53 up to 2^54).      *)
(* The bit operators and Math.imul read a number modulo 2^32.                *)

Half == 65536                        \* 2^16

RECURSIVE Xor(_, _)
Xor(x, y) ==
  IF x = 0 THEN y ELSE IF y = 0 THEN x
  ELSE 2 * Xor(x \div 2, y \div 2) + ((x + y) % 2)

RECURSIVE Or(_, _)
Or(x, y) ==
  IF x = 0 THEN y ELSE IF y = 0 THEN x
  ELSE 2 * Or(x \div 2, y \div 2) + (IF x % 2 = 1 \/ y % 2 = 1 THEN 1 ELSE 0)

RECURSIVE Pow2(_)
Pow2(n) == IF n = 0 THEN 1 ELSE 2 * Pow2(n - 1)

\* x ^ y, x | small, x >>> n (0 < n < 16), x + y modulo 2^32
WordXor(x, y) == [hi |-> Xor(x.hi, y.hi), lo |-> Xor(x.lo, y.lo)]

WordOr(x, small) == [hi |-> x.hi, lo |-> Or(x.lo, small)]

WordShr(x, n) ==
  [hi |-> x.hi \div Pow2(n),
   lo |-> (x.hi % Pow2(n)) * Pow2(16 - n) + x.lo \div Pow2(n)]

WordAdd(x, y) ==
  [hi |-> (x.hi + y.hi + (x.lo + y.lo) \div Half) % Half,
   lo |-> (x.lo + y.lo) % Half]

\* (x * y) modulo 2^16 for 16-bit x, y
MulHalf(x, y) == ((x % 256) * y + (((x \div 256) * y) % 256) * 256) % Half

\* x * y for 16-bit x, y, as a word
MulWide(x, y) ==
  LET p0 == (x % 256) * y
      p1 == (x \div 256) * y
      lo == (p0 % Half) + (p1 % 256) * 256
  IN [hi |-> (p0 \div Half) + (p1 \div 256) + (lo \div Half), lo |-> lo % Half]

\* Math.imul(x, y): the low 32 bits of the product
imul(x, y) ==
  LET low == MulWide(x.lo, y.lo)
  IN [hi |-> (low.hi + MulHalf(x.hi, y.lo) + MulHalf(x.lo, y.hi)) % Half, lo |-> low.lo]

\* the increment 0x6d2b79f5
Increment == [hi |-> 27947, lo |-> 31221]

\* limbs of a number below 2^64
Limbs(w) == << w.lo, w.hi, 0, 0 >>

RECURSIVE LimbAddFrom(_, _, _, _)
LimbAddFrom(x, y, i, carry) ==
  IF i > 4 THEN << >>
  ELSE << (x[i] + y[i] + carry) % Half >>
       \o LimbAddFrom(x, y, i + 1, (x[i] + y[i] + carry) \div Half)

LimbAdd(x, y) == LimbAddFrom(x, y, 1, 0)

\* x - 1 for odd x
LimbPred(x) == [x EXCEPT ![1] = @ - 1]

\* the double nearest to the integer x < 2^54 (ties to the even significand)
RoundDouble(x) ==
  IF x[4] < 32 \/ x[1] % 2 = 0 THEN x
  ELSE IF x[1] % 4 = 1 THEN LimbPred(x)
  ELSE LimbAdd(x, << 1, 0, 0, 0 >>)

\* ToUint32 of the number
ToUint32(x) == [hi |-> x[2], lo |-> x[1]]

\* the body of the closure after t = (a += 0x6d2b79f5), on t modulo 2^32
Scramble(t0) ==
  LET t1 == imul(WordXor(t0, WordShr(t0, 15)), WordOr(t0, 1))
      t2 == WordXor(t1, WordAdd(t1, imul(WordXor(t1, WordShr(t1, 7)), WordOr(t1, 61))))
  IN WordXor(t2, WordShr(t2, 14))

\* one call of the function mulberry32 returned, its variable a being x: the new a and
\* the numerator k of the value k / 4294967296 returned
mulberry32(x) ==
  LET a1 == RoundDouble(LimbAdd(x, Limbs(Increment)))
  IN [a |-> a1, k |-> Scramble(ToUint32(a1))]

\* the 32-bit reference: the state is advanced modulo 2^32
mulberry32Reference(state) ==
  LET s1 == WordAdd(state, Increment)
  IN [state |-> s1, k |-> Scramble(s1)]

\* the variable a after n calls made while every sum is below 2^53: seed + n * increment
TimesIncrement(n) ==
  LET ll == MulWide(n % Half, Increment.lo)
      lh == MulWide(n % Half, Increment.hi)
      hl == MulWide(n \div Half, Increment.lo)
      hh == MulWide(n \div Half, Increment.hi)
  IN LimbAdd(LimbAdd(<< ll.lo, ll.hi, 0, 0 >>, << 0, lh.lo, lh.hi, 0 >>),
             LimbAdd(<< 0, hl.lo, hl.hi, 0 >>, << 0, 0, hh.lo, hh.hi >>))

MaxCalls == 3                        \* calls followed
RngSeeds == 0 .. 15 \cup {1337, 999999}
NearCalls == 4917757                 \* calls after which a is within two increments of 2^53
StartCalls == {0, NearCalls}

SeedWord(seed) == [hi |-> seed \div Half, lo |-> seed % Half]

\* the reference state after n calls: (seed + n * increment) modulo 2^32
ReferenceState(seed, n) == ToUint32(LimbAdd(Limbs(SeedWord(seed)), TimesIncrement(n)))

InitRng ==
  /\ InitEngine /\ settings.playing /\ settings.maxSimultaneous = 1
  /\ runs = << >>
  /\ picked = << >>
  /\ sunkAge = << >>
  /\ PointerIdle
  /\ \E seed \in RngSeeds, n \in StartCalls :
       rng = [ a |-> LimbAdd(Limbs(SeedWord(seed)), TimesIncrement(n)),
               ref |-> ReferenceState(seed, n),
               k |-> << >>, refK |-> << >>, calls |-> 0 ]

\* one call of this.rand()
RandCall ==
  /\ rng.calls < MaxCalls
  /\ LET r == mulberry32(rng.a)
         f == mulberry32Reference(rng.ref)
     IN rng' = [ a |-> r.a, ref |-> f.state, k |-> r.k, refK |-> f.k, calls |-> rng.calls + 1 ]
  /\ UNCHANGED << settings, poolVars, bursts, burstMap, nextBurstTime, elapsed, pc, delta,
                  visibleLen, floorI, bi, rafPending, disposed, floorFailed, ticks,
                  tickStartOrphans, triggerAdded, candidate, sparse, thrown, spawnLog, runs,
                  picked, rand, sunkAge, pointerVars >>

NextRng == RandCall

SpecRng == InitRng /\ [][NextRng]_vars

---------------------------------------------------------------------------
(* pickPaletteColor on its own, on the palettes the control panel can leave  *)
(* in the store: one to MaxSampled colours, each with the weight typed in    *)
(* its number field (min = 0 restricts the spinner, not what is typed).      *)

MaxSampled == 3                      \* colours of a sampled palette
SampleWeights == {-1, 0, 1, 3}       \* weights in tenths
SampleColors == << "gold", "white", "blue", "red", "green" >>
SampleDraws == 0 .. 3                \* this.rand() in quarters

SamplePalettes ==
  UNION { { [i \in 1 .. n |-> [id |-> i, color |-> SampleColors[i], weight |-> ws[i]]] :
              ws \in [1 .. n -> SampleWeights] } : n \in 1 .. MaxSampled }

InitSampler ==
  /\ \E st \in SettingsValues, p \in SamplePalettes :
       /\ st.playing /\ st.enabled # {} /\ st.maxSimultaneous = 2
       /\ settings = [st EXCEPT !.palettes = p]
  /\ Constructed
  /\ runs = << >>
  /\ picked = << >>
  /\ sunkAge = << >>
  /\ PointerIdle
  /\ rng = << >>

\* one call of pickPaletteColor()
PickColor ==
  \E d \in SampleDraws :
    /\ picked' = [draw |-> d, color |-> pickPaletteColor(settings.palettes, d)]
    /\ UNCHANGED << settings, poolVars, bursts, burstMap, nextBurstTime, elapsed, pc, delta,
                    visibleLen, floorI, bi, rafPending, disposed, floorFailed, ticks,
                    tickStartOrphans, triggerAdded, candidate, sparse, thrown, spawnLog, runs,
                    rand, rng, sunkAge, pointerVars >>

NextSampler == PickColor

SpecSampler == InitSampler /\ [][NextSampler]_vars

---------------------------------------------------------------------------
(* Two runs side by side.  Both engines are given the same configuration,   *)
(* the same frame deltas and the same values of this.rand() (the same seed); *)
(* only performance.now(), which enters the burst id, is free to differ.     *)
(* A whole call of animate() is one step here.                               *)

MaxReplayTicks == 2                  \* frames replayed

\* an engine after construction, before its first animate()
Engine0 ==
  [ w |-> [ owners |-> [s \in Slots |-> FreeSentinel],
            extras |-> [s \in Slots |-> [life |-> 0, age |-> 0, y |-> 0, vy |-> 0]],
            active |-> << >>,
            free |-> [i \in 1 .. MAX_PARTICLES |-> i - 1],
            bursts |-> << >>,
            map |-> [id \in IdValues |-> 0],
            written |-> [s \in Slots |-> 0],
            thrown |-> FALSE ],
    nextBurstTime |-> 0,
    elapsed |-> 0 ]

\* spawnBurst() applied to an engine
SpawnInto(e, st, d) ==
  LET r == spawnBurst(st, e.w.bursts, e.w.map, e.nextBurstTime, e.elapsed, FALSE, None, 0, d)
  IN [e EXCEPT !.w.bursts = r.bursts, !.w.map = r.map, !.nextBurstTime = r.nextBurstTime]

\* the floor loop of maintainScheduler from i on
RECURSIVE FloorLoop(_, _, _, _)
FloorLoop(e, st, i, d) ==
  IF FloorLoopContinues(st, i) THEN FloorLoop(SpawnInto(e, st, d), st, i + 1, d) ELSE e

\* maintainScheduler(delta)
maintainScheduler(e, st, d) ==
  LET visible == VisibleCount(e.w.bursts)
      e1 == FloorLoop(e, st, visible, d)
  IN IF RateDue(st, visible, e1.elapsed, e1.nextBurstTime) THEN SpawnInto(e1, st, d) ELSE e1

\* the burst loop of animate, from index k down
RECURSIVE BurstLoop(_, _, _, _, _, _, _)
BurstLoop(w, k, st, dt, lifeU, fragU, trailDraw) ==
  IF k = 0 \/ w.thrown THEN w
  ELSE LET u == updateBurst(w, k, st, dt, lifeU, fragU, trailDraw)
       IN BurstLoop(IF u.thrown THEN u ELSE RemoveIfDone(u, k), k - 1, st, dt, lifeU, fragU, trailDraw)

\* animate(): one frame of an engine
animate(e, st, raw, d, lifeU, fragU, trailDraw) ==
  LET dt == Min(DeltaClamp, raw)
      e1 == maintainScheduler([e EXCEPT !.elapsed = @ + dt], st, d)
      w2 == BurstLoop(e1.w, Len(e1.w.bursts), st, dt, lifeU, fragU, trailDraw)
  IN [e1 EXCEPT !.w = IF w2.thrown THEN w2 ELSE updateParticles(w2, st, dt)]

InitReplay ==
  /\ InitEngine
  /\ settings.playing /\ settings.enabled # {} /\ settings.maxSimultaneous = 2
  /\ runs = [a |-> Engine0, b |-> Engine0, n |-> 0]
  /\ picked = << >>
  /\ sunkAge = << >>
  /\ PointerIdle
  /\ rng = << >>

\* one frame of both runs: same delta, same draws, performance.now() free in each
ReplayTick ==
  \E raw \in RawDeltas, d \in SpawnDraws, nowB \in IdValues,
     lifeU \in [1 .. MaxCount -> LifeDraws], fragU \in [1 .. MaxCount -> FragDraws],
     trailDraw \in TrailDraws :
    /\ runs.n < MaxReplayTicks
    /\ runs' = [ a |-> animate(runs.a, settings, raw, d, lifeU, fragU, trailDraw),
                 b |-> animate(runs.b, settings, raw, [d EXCEPT !.id = nowB], lifeU, fragU, trailDraw),
                 n |-> runs.n + 1 ]
    /\ UNCHANGED << settings, owners, extras, activeIndices, freeIndices, writtenFor, bursts,
                    burstMap, nextBurstTime, elapsed, pc, delta, visibleLen, floorI, bi,
                    rafPending, disposed, floorFailed, ticks, tickStartOrphans, triggerAdded,
                    candidate, sparse, thrown, spawnLog, picked, rand, rng, sunkAge, pointerVars >>

NextReplay == ReplayTick

SpecReplay == InitReplay /\ [][NextReplay]_vars

---------------------------------------------------------------------------
(* enforceSparsity as a function of the burst positions and the candidate: *)
(* bursts and candidate on one line of the target plane, so that every     *)
(* separating vector is parallel to the x axis and the arithmetic is exact.*)

MaxPlaced == 3                       \* bursts in place when the correction is applied
LineXs == {0, 30, 60, 90, 120}       \* x of the bursts and of the candidate

PlacedBurst(px, uid) ==
  [ uid |-> uid, id |-> 2, type |-> "peony", color |-> "gold", position |-> [x |-> px, y |-> targetPlaneY],
    velocity |-> shellVelocity, exploded |-> FALSE, fuseTime |-> fuseDelay, age |-> 0,
    particleCount |-> 1, fragmentCount |-> 2, indices |-> << >>, reduceMotion |-> FALSE,
    explosions |-> 0, sparks |-> 0 ]

InitSparsity ==
  /\ settings \in SettingsValues
  /\ settings.playing /\ settings.enabled # {} /\ settings.maxSimultaneous = 2
  /\ owners = [s \in Slots |-> FreeSentinel]
  /\ extras = [s \in Slots |-> [life |-> 0, age |-> 0, y |-> 0, vy |-> 0]]
  /\ activeIndices = << >>
  /\ freeIndices = [i \in 1 .. MAX_PARTICLES |-> i - 1]
  /\ \E n \in 0 .. MaxPlaced : \E xs \in [1 .. n -> LineXs] :
       bursts = [i \in 1 .. n |-> PlacedBurst(xs[i], i)]
  /\ burstMap = [id \in IdValues |-> 0]
  /\ nextBurstTime = 0
  /\ elapsed = 0
  /\ pc = "idle"
  /\ delta = 0
  /\ visibleLen = 0
  /\ floorI = 0
  /\ bi = 0
  /\ rafPending = 0
  /\ disposed = FALSE
  /\ writtenFor = [s \in Slots |-> 0]
  /\ floorFailed = 0
  /\ ticks = 0
  /\ tickStartOrphans = {}
  /\ triggerAdded = -1
  /\ candidate = None
  /\ sparse = None
  /\ spawnLog = NoLog
  /\ thrown = FALSE
  /\ runs = << >>
  /\ picked = << >>
  /\ sunkAge = << >>
  /\ PointerIdle
  /\ rng = << >>
  /\ rand = settings.seed

\* a call enforceSparsity(position), as triggerBurstAtScreen makes it
EnforceSparsityCall ==
  \E cx \in LineXs :
    /\ candidate' = [x |-> cx, y |-> targetPlaneY]
    /\ sparse' = enforceSparsity(bursts, [x |-> cx, y |-> targetPlaneY])
    /\ UNCHANGED << settings, thrown, otherVars, poolVars, bursts, burstMap, nextBurstTime, elapsed, pc, delta,
                    visibleLen, floorI, bi, rafPending, disposed, floorFailed, ticks,
                    tickStartOrphans, triggerAdded, spawnLog >>

NextSparsity == EnforceSparsityCall

SpecSparsity == InitSparsity /\ [][NextSparsity]_vars

---------------------------------------------------------------------------
(* The particles of one explosion on their way to the ground, for shell    *)
(* parameters that give lives above the fade cap and particles that fall:  *)
(* the frames after the one in which the burst exploded.                   *)

MaxPhysicsElapsed == 40              \* frames are explored while elapsed stays within this
MaxSparks == 2                       \* particles the explosion wrote
SparkLives == {3, 30}                \* life passed to setParticle
SparkHeights == {0, 16}              \* burst.position.y at the explosion
SparkVys == {-5, -1, 0, 1}              \* velocity.y passed to setParticle
GroundPolicies == {"fade", "rebound"}

\* the burst at the end of explodeBurst, before its particles are written
ExplodedBurst(y0) ==
  [ PlacedBurst(0, 1) EXCEPT !.position = [x |-> 0, y |-> y0], !.exploded = TRUE,
                             !.age = fuseDelay, !.explosions = 1 ]

\* the engine's pool and collection with that burst alone
ExplodedWorld(y0) ==
  [ Engine0.w EXCEPT !.bursts = << ExplodedBurst(y0) >>,
                     !.map[ExplodedBurst(y0).id] = ExplodedBurst(y0).uid ]

\* the particle loop of explodeBurst for lives and velocities given per particle
RECURSIVE SparkLoop(_, _, _, _)
SparkLoop(w, i, lives, vys) ==
  IF i > Len(lives) THEN w
  ELSE LET a == allocateParticle(w)
           w1 == setParticle(a.w, a.index, w.bursts[1].position, vys[i], lives[i],
                             w.bursts[1].id, w.bursts[1].uid)
       IN SparkLoop([w1 EXCEPT !.bursts[1].indices = Append(@, a.index),
                               !.bursts[1].sparks = @ + 1],
                    i + 1, lives, vys)

\* the history sunkAge after a frame that left the pool as w
SunkAfter(prev, w, st) ==
  [ s \in Slots |->
      IF \A i \in 1 .. Len(w.active) : w.active[i] # s THEN -1
      ELSE IF prev[s] >= 0 THEN prev[s]
      ELSE IF w.extras[s].y < 0 /\ st.groundCollision = "fade" THEN w.extras[s].age
      ELSE -1 ]

\* the end of the frame in which a burst exploded: its particles written by
\* setParticle and integrated once by updateParticles
InitPhysics ==
  /\ \E st \in SettingsValues, g \in GroundPolicies :
       /\ st.enabled = {}
       /\ settings = [st EXCEPT !.groundCollision = g]
  /\ \E y0 \in SparkHeights, n \in 1 .. MaxSparks, raw \in RawDeltas :
     \E lives \in [1 .. n -> SparkLives], vys \in [1 .. n -> SparkVys] :
     \E w \in { updateParticles(SparkLoop(ExplodedWorld(y0), 1, lives, vys), settings,
                                  Min(DeltaClamp, raw)) } :
          /\ owners = w.owners
          /\ extras = w.extras
          /\ activeIndices = w.active
          /\ freeIndices = w.free
          /\ writtenFor = w.written
          /\ bursts = w.bursts
          /\ burstMap = w.map
          /\ delta = Min(DeltaClamp, raw)
          /\ elapsed = Min(DeltaClamp, raw)
          /\ sunkAge = SunkAfter([s \in Slots |-> -1], w, settings)
          /\ PointerIdle
  /\ nextBurstTime = 0
  /\ pc = "idle"
  /\ visibleLen = 0
  /\ floorI = 0
  /\ bi = 0
  /\ rafPending = RafHandle
  /\ disposed = FALSE
  /\ floorFailed = 0
  /\ ticks = 1
  /\ tickStartOrphans = {}
  /\ triggerAdded = -1
  /\ candidate = None
  /\ sparse = None
  /\ spawnLog = NoLog
  /\ thrown = FALSE
  /\ rand = settings.seed
  /\ runs = << >>
  /\ picked = << >>
  /\ rng = << >>

\* values for the draws of a frame that consumes none
UnusedDraw == CHOOSE d \in SpawnDraws : TRUE
UnusedDraws == [i \in 1 .. MaxCount |-> 0]

\* animate(): a whole frame.  No archetype is enabled and the burst has exploded, so
\* no draw of the generator plays a part in it.
PhysicsFrame ==
  \E raw \in RawDeltas :
    /\ pc = "idle"
    /\ rafPending # 0
    /\ elapsed + Min(DeltaClamp, raw) <= MaxPhysicsElapsed
    /\ \E e \in { animate([w |-> World, nextBurstTime |-> nextBurstTime, elapsed |-> elapsed],
                           settings, raw, UnusedDraw, UnusedDraws, UnusedDraws, 0) } :
          /\ owners' = e.w.owners
          /\ extras' = e.w.extras
          /\ activeIndices' = e.w.active
          /\ freeIndices' = e.w.free
          /\ writtenFor' = e.w.written
          /\ bursts' = e.w.bursts
          /\ burstMap' = e.w.map
          /\ thrown' = e.w.thrown
          /\ nextBurstTime' = e.nextBurstTime
          /\ elapsed' = e.elapsed
          /\ sunkAge' = SunkAfter(sunkAge, e.w, settings)
    /\ delta' = Min(DeltaClamp, raw)
    /\ UNCHANGED << settings, pc, visibleLen, floorI, bi, rafPending, disposed, floorFailed,
                    ticks, tickStartOrphans, triggerAdded, candidate, sparse, spawnLog,
                    runs, picked, rand, rng, pointerVars >>

\* the ground collision select of the control panel:
\* updateSetting('physics.groundCollision', value)
setGroundCollision ==
  \E g \in GroundPolicies :
    /\ pc = "idle"
    /\ g # settings.groundCollision
    /\ settings' = [settings EXCEPT !.groundCollision = g]
    /\ UNCHANGED << poolVars, bursts, burstMap, nextBurstTime, elapsed, pc, delta, visibleLen,
                    floorI, bi, rafPending, disposed, floorFailed, ticks, tickStartOrphans,
                    triggerAdded, candidate, sparse, thrown, spawnLog, otherVars >>

NextPhysics == PhysicsFrame \/ setGroundCollision

SpecPhysics == InitPhysics /\ [][NextPhysics]_vars

---------------------------------------------------------------------------
(* Frames that keep coming: the bursts in flight when the last archetype   *)
(* was switched off, so that no frame spawns another, followed until each  *)
(* has exploded.                                                           *)

\* the engine after spawnBurst() was called once or twice on the constructed engine
InFlight(st, d1, d2, n) ==
  IF n = 1 THEN SpawnInto(Engine0, st, d1) ELSE SpawnInto(SpawnInto(Engine0, st, d1), st, d2)

InitLive ==
  /\ \E st \in SettingsValues, d1 \in SpawnDraws, d2 \in SpawnDraws, n \in 1 .. 2 :
       /\ st.enabled # {}
       /\ d2.type = d1.type
       /\ settings = [st EXCEPT !.enabled = {}]
       /\ \E e \in { InFlight(st, d1, d2, n) } :
            /\ Len(e.w.bursts) >= 1
            /\ bursts = e.w.bursts
            /\ burstMap = e.w.map
            /\ nextBurstTime = e.nextBurstTime
  /\ owners = [s \in Slots |-> FreeSentinel]
  /\ extras = [s \in Slots |-> [life |-> 0, age |-> 0, y |-> 0, vy |-> 0]]
  /\ activeIndices = << >>
  /\ freeIndices = [i \in 1 .. MAX_PARTICLES |-> i - 1]
  /\ writtenFor = [s \in Slots |-> 0]
  /\ elapsed = 0
  /\ delta = 0
  /\ pc = "idle"
  /\ visibleLen = 0
  /\ floorI = 0
  /\ bi = 0
  /\ rafPending = RafHandle
  /\ disposed = FALSE
  /\ floorFailed = 0
  /\ ticks = 0
  /\ tickStartOrphans = {}
  /\ triggerAdded = -1
  /\ candidate = None
  /\ sparse = None
  /\ spawnLog = NoLog
  /\ thrown = FALSE
  /\ rand = settings.seed
  /\ runs = << >>
  /\ picked = << >>
  /\ sunkAge = << >>
  /\ PointerIdle
  /\ rng = << >>

\* the burst loop of animate has an iteration left: UpdateBurstStep is enabled
BurstLoopPending == pc \in {"scheduled", "bursts"} /\ bi >= 1

\* the burst loop of animate is over: AnimateEnd is enabled
ParticlesPending == pc \in {"scheduled", "bursts"} /\ bi = 0

NextLive ==
  \/ AnimateBegin
  \/ FloorSpawn
  \/ SchedulerRate
  \/ UpdateBurstStep
  \/ AnimateEnd
  \/ dispose

\* animate() runs to its end once begun, and the frame it requests with
\* requestAnimationFrame(this.animate) is run by the browser; every frame has a
\* positive delta (RawDeltas).  Weak fairness of the two steps that work on the pool
\* is written out with their enabling conditions.
SpecLive ==
  /\ InitLive
  /\ [][NextLive]_vars
  /\ WF_vars(AnimateBegin)
  /\ WF_vars(FloorSpawn)
  /\ WF_vars(SchedulerRate)
  /\ []<>(~BurstLoopPending) \/ []<><<UpdateBurstStep>>_vars
  /\ []<>(~ParticlesPending) \/ []<><<AnimateEnd>>_vars


---------------------------------------------------------------------------
(* The pointer handlers and the interaction settings of the control panel *)

PointerXs == {0, 20}                 \* event.clientX
PointerYs == {0, 20}                 \* event.clientY
DragDistance == 24                   \* if (distance > 24)
MaxPointerBursts == 3                \* pointer events are explored while fewer bursts exist

\* x of the point where the ray through the pointer meets the plane, for a camera at rest
PlaneX(clientX) == 5 * clientX

\* the draws of a spawnBurst call that is given its position: no candidate is drawn
PointerDraws == { d \in SpawnDraws : d.cands = UnusedDraw.cands }

\* the state changes of a call triggerBurstAtScreen(x, y) whose ray meets the plane at cx
triggerBurstAtScreenCall(cx, d) ==
  /\ Len(bursts) < MaxPointerBursts
  /\ \E r \in { LET intersection == [x |-> cx, y |-> targetPlaneY]
                 IN spawnBurst(settings, bursts, burstMap, nextBurstTime, elapsed, TRUE,
                               enforceSparsity(bursts, intersection), targetPlaneY, d) } :
        /\ bursts' = r.bursts
        /\ burstMap' = r.map
        /\ nextBurstTime' = r.nextBurstTime
        /\ triggerAdded' = Len(r.bursts) - Len(bursts)

\* what no pointer handler touches
pointerFrame == << settings, thrown, runs, picked, rand, rng, sunkAge, poolVars, elapsed, pc, delta,
                   visibleLen, floorI, bi, rafPending, disposed, floorFailed, ticks,
                   tickStartOrphans, candidate, sparse, spawnLog >>

\* onPointerDown(event)
onPointerDown ==
  \E x \in PointerXs, y \in PointerYs, d \in PointerDraws :
    /\ pc = "idle"
    /\ IF ~interaction.clickToBurst
       THEN UNCHANGED << bursts, burstMap, nextBurstTime, triggerAdded, pointerDown, pointerLast >>
       ELSE /\ pointerDown' = TRUE
            /\ triggerBurstAtScreenCall(PlaneX(x), d)
            /\ pointerLast' = [x |-> x, y |-> y]
    /\ UNCHANGED << interaction, pointerFrame >>

\* onPointerMove(event); Math.hypot(dx, dy) > 24 compared by the squares
onPointerMove ==
  \E x \in PointerXs, y \in PointerYs, d \in PointerDraws :
    /\ pc = "idle"
    /\ LET dx == x - pointerLast.x
           dy == y - pointerLast.y
       IN IF interaction.followCursor /\ pointerDown
             /\ dx * dx + dy * dy > DragDistance * DragDistance
          THEN /\ triggerBurstAtScreenCall(PlaneX(x), d)
               /\ pointerLast' = [x |-> x, y |-> y]
          ELSE UNCHANGED << bursts, burstMap, nextBurstTime, triggerAdded, pointerLast >>
    /\ UNCHANGED << interaction, pointerDown, pointerFrame >>

\* onPointerUp()
onPointerUp ==
  /\ pc = "idle"
  /\ pointerDown' = FALSE
  /\ UNCHANGED << interaction, pointerLast, bursts, burstMap, nextBurstTime, triggerAdded,
                  pointerFrame >>

\* the checkboxes of the control panel: updateSetting(['interaction', key], checked)
updateInteraction ==
  \E key \in {"clickToBurst", "followCursor"}, checked \in BOOLEAN :
    /\ pc = "idle"
    /\ interaction' = [interaction EXCEPT ![key] = checked]
    /\ UNCHANGED << pointerDown, pointerLast, bursts, burstMap, nextBurstTime, triggerAdded,
                    pointerFrame >>

\* animate() as the constructor calls it: the frame that precedes every pointer event
ConstructorFrame == pc = "ctor" /\ AnimateBegin

NextPointer ==
  \/ ConstructorFrame
  \/ FloorSpawn
  \/ SchedulerRate
  \/ UpdateBurstStep
  \/ AnimateEnd
  \/ onPointerDown
  \/ onPointerMove
  \/ onPointerUp
  \/ updateInteraction

SpecPointer == Init /\ [][NextPointer]_vars


---------------------------------------------------------------------------
(* The archetype check boxes: a show in which any of the two archetypes is  *)
(* switched on or off between the frames.                                   *)

\* the playing show with room for two bursts, with each choice of enabled archetypes
TypeSettings ==
  { [st EXCEPT !.enabled = e] :
      st \in { t \in SettingsValues : t.playing /\ t.maxSimultaneous = 2 },
      e \in SUBSET BothTypes }

InitTypes ==
  /\ settings \in TypeSettings
  /\ Constructed
  /\ runs = << >> /\ picked = << >> /\ rng = << >> /\ sunkAge = << >>
  /\ PointerIdle

\* a check box of the shell types: updateSetting(['shellTypes', type, 'enabled'], checked)
setShellTypeEnabled ==
  \E type \in BothTypes, checked \in BOOLEAN :
    /\ pc = "idle"
    /\ settings' = [settings EXCEPT !.enabled = IF checked THEN @ \cup {type} ELSE @ \ {type}]
    /\ UNCHANGED << thrown, otherVars, poolVars, bursts, burstMap, nextBurstTime, elapsed, pc, delta,
                    visibleLen, floorI, bi, rafPending, disposed, floorFailed, ticks,
                    tickStartOrphans, triggerAdded, candidate, sparse, spawnLog >>

NextTypes ==
  \/ AnimateBegin
  \/ FloorSpawn
  \/ SchedulerRate
  \/ UpdateBurstStep
  \/ AnimateEnd
  \/ triggerBurstAtScreen
  \/ setShellTypeEnabled

SpecTypes == InitTypes /\ [][NextTypes]_vars

---------------------------------------------------------------------------
(* Properties *)

Occurrences(seq, v) == Cardinality({ i \in 1 .. Len(seq) : seq[i] = v })

Listed(b) == { b.indices[j] : j \in 1 .. Len(b.indices) }

C2_ReleaseScrubsOwner ==
  \A i \in 1 .. Len(bursts) : \A s \in Listed(bursts[i]) : Occurrences(freeIndices, s) = 0

\* C3: between frames no slot index is in the index lists of two different bursts.
C3_NoSharedSlot ==
  pc = "idle" =>
    \A i \in 1 .. Len(bursts) : \A j \in 1 .. Len(bursts) :
      i # j => Listed(bursts[i]) \cap Listed(bursts[j]) = {}

C5_MaxRespected == VisibleCount(bursts) <= settings.maxSimultaneous

\* C6: a burst that had exploded and had no live particle left when a tick began is
\* no longer in the collection when that tick ends.
C6_RemovedByNextTick ==
  [][ (pc # "idle" /\ pc' = "idle") =>
        \A i \in 1 .. Len(bursts') : bursts'[i].uid \notin tickStartOrphans ]_vars

\* C7: once dispose() has returned, no tick of the engine runs: animate() is never
\* again under way.
C7_NoTickAfterDispose == disposed => pc = "idle"

\* C8, for candidates and results that coincide with no burst (so that a zero
\* separating vector plays no part in the result): the position enforceSparsity
\* returns is at distance >= minDistance from every existing burst.
C8_SparseIsFar ==
  ( /\ sparse # None
    /\ \A i \in 1 .. Len(bursts) : bursts[i].position # candidate /\ bursts[i].position # sparse )
  => \A i \in 1 .. Len(bursts) : DistSq(bursts[i].position, sparse) >= minDistance * minDistance

C10_QuarterCap ==
  [][ 4 * (Len(freeIndices) - Len(freeIndices')) <= MAX_PARTICLES ]_vars

\* the fuse / altitude condition after the ascent step of this tick
ExplosionDue(b, dt) ==
  \/ b.age + dt >= b.fuseTime
  \/ Ascent(b, dt).position.y >= targetAltitudeMax

\* the step under way is the burst-loop step of animate for bursts[bi]
BurstStep == pc \in {"scheduled", "bursts"} /\ bi >= 1 /\ pc' = "bursts"

\* C11: with an empty free list allocateParticle returns null and leaves the pool
\* as it is, and an explosion performed then completes: afterwards the burst is
\* exploded (and removed in the same step when it lists no slot), no slot was
\* written, and the owners, the extras, the active list and the free list are unchanged.
C11_ExhaustedExplosion ==
  [][ (BurstStep /\ Len(freeIndices) = 0 /\ ~bursts[bi].exploded /\ ExplosionDue(bursts[bi], delta))
      => /\ allocateParticle(World) = [index |-> -1, w |-> World]
         /\ UNCHANGED << owners, extras, activeIndices, freeIndices, writtenFor >>
         /\ LET k == BurstAt(bursts', bursts[bi].uid)
            IN IF k = 0 THEN Len(bursts[bi].indices) = 0
               ELSE /\ bursts'[k].exploded
                    /\ bursts'[k].indices = bursts[bi].indices ]_vars

\* C11 witness: a burst of the collection has run its explosion and obtained no slot
\* (the free list was empty), while the pool is still exhausted.
C11_Witness ==
  /\ Len(freeIndices) = 0
  /\ \E i \in 1 .. Len(bursts) :
       bursts[i].exploded /\ bursts[i].explosions = 1 /\ bursts[i].sparks = 0

\* C13: in every step, a burst that stays in the collection does not go from
\* exploded to not exploded; a burst that leaves it has exploded (before the step, or
\* in this very burst-loop step, its explosion being due); and a burst that enters it
\* is a new one (not exploded, age 0, no explosion run, no slot), so a removed burst,
\* which is exploded, never comes back.
C13_NoRegression ==
  [][ /\ \A i \in 1 .. Len(bursts) :
           LET k == BurstAt(bursts', bursts[i].uid)
           IN IF k # 0
              THEN bursts[i].exploded => bursts'[k].exploded
              ELSE \/ bursts[i].exploded
                   \/ BurstStep /\ i = bi /\ ExplosionDue(bursts[i], delta)
      /\ \A k \in 1 .. Len(bursts') :
           BurstAt(bursts, bursts'[k].uid) = 0
           => /\ ~bursts'[k].exploded
              /\ bursts'[k].age = 0
              /\ bursts'[k].explosions = 0
              /\ bursts'[k].indices = << >> ]_vars

\* C13 witness: in the burst loop, a burst that was exploded and spent when the tick
\* began has been removed, while another exploded burst is still in the collection.
C13_Witness ==
  /\ pc = "bursts"
  /\ \E u \in tickStartOrphans : BurstAt(bursts, u) = 0
  /\ \E i \in 1 .. Len(bursts) : bursts[i].exploded

\* C14: explodeBurst runs for a burst in a step exactly when that step is the
\* burst-loop step of a burst not yet exploded whose age, after the ascent of this
\* tick, is >= its fuse time or whose altitude is >= targetAltitudeMax; so it runs at
\* most once per burst, and a burst that has ascended and is not exploded has not
\* met the condition in any earlier tick.
C14_ExplodesOnceWhenDue ==
  [][ /\ \A i \in 1 .. Len(bursts) :
           LET k == BurstAt(bursts', bursts[i].uid)
               ran == IF k = 0 THEN ~bursts[i].exploded
                      ELSE bursts'[k].explosions > bursts[i].explosions
           IN ran <=> ( /\ BurstStep
                        /\ i = bi
                        /\ ~bursts[i].exploded
                        /\ \/ bursts[i].age + delta >= bursts[i].fuseTime
                           \/ Ascent(bursts[i], delta).position.y >= targetAltitudeMax )
      /\ \A k \in 1 .. Len(bursts') :
           /\ bursts'[k].explosions = (IF bursts'[k].exploded THEN 1 ELSE 0)
           /\ (~bursts'[k].exploded /\ bursts'[k].age > 0)
              => /\ bursts'[k].age < bursts'[k].fuseTime
                 /\ bursts'[k].position.y < targetAltitudeMax ]_vars

\* C14 witness: between frames, after more than one tick, one burst has exploded on
\* its fuse and another on its altitude, each exactly once.
C14_Witness ==
  /\ pc = "idle"
  /\ ticks = 2
  /\ \E i \in 1 .. Len(bursts) :
       bursts[i].explosions = 1 /\ bursts[i].age >= bursts[i].fuseTime
  /\ \E j \in 1 .. Len(bursts) :
       /\ bursts[j].explosions = 1
       /\ bursts[j].age < bursts[j].fuseTime
       /\ bursts[j].position.y >= targetAltitudeMax

\* C15: no two bursts of the collection have the same id.
C15_UniqueIds ==
  \A i \in 1 .. Len(bursts) : \A j \in 1 .. Len(bursts) :
    i # j => bursts[i].id # bursts[j].id

FarEnough(i, y) ==
  \A k \in 1 .. Len(bursts) :
    DistSq(bursts[k].position, [x |-> spawnLog'.drawn[i], y |-> y]) >= poissonRadius * poissonRadius

\* the step is a spawnBurst call of the scheduler that sampled launch positions
SampledSpawn == pc = "floor" /\ spawnLog'.drawn # << >>

\* when none of the candidates of a scheduler spawn is valid, the call changes nothing
AbandonChangesNothing ==
  (SampledSpawn /\ \A i \in 1 .. attempts : ~FarEnough(i, launchHeightMin))
  => /\ UNCHANGED << bursts, burstMap, nextBurstTime >>
     /\ UNCHANGED << owners, extras, activeIndices, freeIndices >>
     /\ spawnLog'.abandoned = 1

C18_FirstValidCandidate ==
  [][ (SampledSpawn /\ Len(bursts') = Len(bursts) + 1)
      => LET new == bursts'[Len(bursts')]
         IN /\ \A k \in 1 .. Len(bursts) :
                 DistSq(bursts[k].position, new.position) >= poissonRadius * poissonRadius
            /\ \E i \in 1 .. attempts :
                 /\ new.position.x = spawnLog'.drawn[i]
                 /\ FarEnough(i, new.position.y)
                 /\ \A j \in 1 .. (i - 1) : ~FarEnough(j, new.position.y) ]_vars

\* C18 witness: the scheduler has just placed a burst on its 8th candidate, the first
\* seven being too close to a burst created earlier in the same tick.
C18_Witness ==
  /\ pc \in {"floor", "scheduled"}
  /\ spawnLog.drawn # << >>
  /\ Len(bursts) >= 2
  /\ bursts[Len(bursts)].age = 0
  /\ bursts[Len(bursts) - 1].age = 0
  /\ spawnLog.drawn[1] = bursts[Len(bursts) - 1].position.x
  /\ spawnLog.drawn[attempts] # spawnLog.drawn[1]
  /\ bursts[Len(bursts)].position.x = spawnLog.drawn[attempts]

\* C19: when the candidate coincides with the position of the (only) burst, the
\* correction takes the fallback direction (1,0,0): the result is the burst's position
\* moved by minDistance along x, at distance exactly minDistance from the burst.
C19_CoincidenceFallback ==
  (sparse # None /\ Len(bursts) = 1 /\ bursts[1].position = candidate)
  => /\ sparse = [x |-> candidate.x + minDistance, y |-> candidate.y]
     /\ DistSq(bursts[1].position, sparse) = minDistance * minDistance

\* C20 (checked while the palette is emptied and repopulated between frames): no tick
\* throws, which is what advancing or exploding a burst without a defined palette
\* colour does.
C20_PaletteNeverThrows == ~thrown

\* what a run shows of its bursts: archetype, position and exploded flag of each
\* burst of the collection, in order
Outcome(e) ==
  [ i \in 1 .. Len(e.w.bursts) |->
      [ type |-> e.w.bursts[i].type,
        position |-> e.w.bursts[i].position,
        exploded |-> e.w.bursts[i].exploded ] ]

\* C12: two runs with the same seed (the same draws), the same configuration and the
\* same frame deltas show the same bursts after every frame, whatever the wall clock
\* returned in each.
C12_ReplayAgrees ==
  runs # << >> => Outcome(runs.a) = Outcome(runs.b)

\* C21: for a non-empty palette pickPaletteColor returns a colour of the current
\* palette: the first colour, in palette order, whose cumulative weight is >= r =
\* rand * (sum of the current weights), the last colour when there is none; for a
\* palette of one colour it returns that colour.
C21_SampledColour ==
  picked # << >> =>
    LET p == settings.palettes
        total == WeightSum(p, Len(p))
        reached == { i \in 1 .. Len(p) : 4 * WeightSum(p, i) >= picked.draw * total }
    IN /\ \E i \in 1 .. Len(p) : picked.color = p[i].color
       /\ reached # {} =>
            \E i \in reached : (\A j \in reached : i <= j) /\ picked.color = p[i].color
       /\ reached = {} => picked.color = p[Len(p)].color
       /\ Len(p) = 1 => picked.color = p[1].color

\* a palette of three colours from which the draw selects the second
C21_Witness ==
  /\ picked # << >>
  /\ Len(settings.palettes) = 3
  /\ picked.draw > 0
  /\ picked.color = settings.palettes[2].color

\* C22: a change of the seed setting replaces the engine's generator by one seeded
\* with the new seed and changes nothing else: bursts, pool slots, the free and
\* active lists and the scheduler state are as before.
C22_ReseedReplacesGenerator ==
  [][ settings'.seed # settings.seed =>
        /\ rand' = settings'.seed
        /\ UNCHANGED << poolVars, bursts, burstMap, nextBurstTime, elapsed >> ]_vars

\* C23: every value the generator returns is k / 2^32 with 0 <= k < 2^32 and equals
\* the output of the 32-bit mulberry32 reference whose state is the seed advanced by
\* 0x6d2b79f5 modulo 2^32 at each call, after any number of calls.
C23_MatchesReference ==
  (rng # << >> /\ rng.calls > 0) =>
    /\ rng.k.hi \in 0 .. (Half - 1) /\ rng.k.lo \in 0 .. (Half - 1)
    /\ rng.k = rng.refK

\* the step that ends a tick: updateParticles and the request of the next frame
TickEnd == pc \in {"scheduled", "bursts"} /\ pc' = "idle" /\ ~thrown'

\* C24: within a tick the scheduler step comes first, then the bursts' ascent and
\* explosion, then particle integration: slots enter the active list only in the
\* burst loop, and every particle created during the tick (age 0 when integration
\* starts) has age = dt at the end of the tick or has been released.
C24_IntegratedInBirthTick ==
  [][ /\ (\E s \in Slots : Occurrences(activeIndices', s) > Occurrences(activeIndices, s))
         => (pc \in {"scheduled", "bursts"} /\ pc' \in {"bursts", "idle"} /\ ~TickEnd)
      /\ TickEnd =>
           \A s \in Slots :
             (Occurrences(activeIndices, s) > 0 /\ extras[s].age = 0) =>
               \/ Occurrences(activeIndices', s) = 0
               \/ extras'[s].age = delta ]_vars

\* between frames, a particle created in the frame just ended, integrated once
C24_Witness ==
  /\ pc = "idle" /\ delta > 0
  /\ \E s \in Slots : Occurrences(activeIndices, s) > 0 /\ extras[s].age = delta

\* C25: at the end of every frame, under either ground policy, no particle of the
\* active list has an age that has reached its life (the life its slot holds then).
C25_AgeBelowLife ==
  (pc = "idle" /\ sunkAge # << >>) =>
    \A i \in 1 .. Len(activeIndices) :
      extras[activeIndices[i]].age < extras[activeIndices[i]].life

\* C29: under the fade policy a particle that a frame end found below the ground is
\* released after at most 0.2 s of further simulation time plus one frame: a particle
\* still in the active list at a frame end has aged at most 0.2 s since the first
\* frame end that found it below the ground, whatever its life and age were then.
C29_FadeReleasesSoon ==
  (pc = "idle" /\ sunkAge # << >>) =>
    \A i \in 1 .. Len(activeIndices) :
      LET s == activeIndices[i]
      IN sunkAge[s] >= 0 => extras[s].age - sunkAge[s] <= FadeCap

\* C29 witness: a particle written with a life above the cap went below the ground,
\* had its life cut to the cap, and has lived through a further frame.
C29_Witness ==
  /\ pc = "idle"
  /\ sunkAge # << >>
  /\ \E i \in 1 .. Len(activeIndices) :
       LET s == activeIndices[i]
       IN /\ sunkAge[s] >= 0
          /\ extras[s].age > sunkAge[s]
          /\ extras[s].life = FadeCap
          /\ extras[s].y < 0

\* C30: under the rebound policy, at the end of every frame every particle of the
\* active list has y >= 0, and one that the frame's motion took below the ground has
\* been put at y = 0 with a vertical velocity >= 0.
C30_ReboundAboveGround ==
  [][ (settings.groundCollision = "rebound" /\ sunkAge # << >> /\ elapsed' # elapsed)
      => \A i \in 1 .. Len(activeIndices') :
           LET s == activeIndices'[i]
           IN /\ extras'[s].y >= 0
              /\ Moved(extras[s], delta').y < 0
                 => extras'[s].y = 0 /\ extras'[s].vy >= 0 ]_vars

\* C30 witness: under the rebound policy a falling particle has just been put on the
\* ground and left it with an upward velocity.
C30_Witness ==
  /\ pc = "idle"
  /\ sunkAge # << >>
  /\ settings.groundCollision = "rebound"
  /\ \E i \in 1 .. Len(activeIndices) :
       extras[activeIndices[i]].y = 0 /\ extras[activeIndices[i]].vy > 0

\* the step is the part of maintainScheduler after the floor loop
RateStep == pc = "floor" /\ pc' = "scheduled"

\* that step called spawnBurst: launch positions were sampled or a burst was added
RateSpawnAttempted == RateStep /\ (spawnLog'.drawn # << >> \/ Len(bursts') # Len(bursts))

\* C27: the rate-scheduled spawn of a tick is attempted only when playing is true,
\* the number of visible bursts is below maxSimultaneous and the clock has reached
\* nextBurstTime; a tick makes at most one such spawn, and a successful one sets
\* nextBurstTime to clock + lerp(staggerMin, staggerMax, u) / max(0.2, globalRate).
C27_RateSpawnGuarded ==
  [][ /\ RateSpawnAttempted
         => /\ settings.playing
            /\ VisibleCount(bursts) < settings.maxSimultaneous
            /\ elapsed >= nextBurstTime
      /\ RateStep
         => /\ Len(bursts') <= Len(bursts) + 1
            /\ Len(bursts') = Len(bursts) + 1
               => \E u \in StaggerDraws : nextBurstTime' = scheduleNext(settings, elapsed, u) ]_vars

\* C28: in every step, a burst that had exploded and stays in the collection keeps
\* its position, velocity, age, fuse time and archetype, and no slot is added to its
\* index list; a slot that leaves the list held a particle written for this burst
\* and is released (pushed on the free list) in that step.
C28_ExplodedIsFrozen ==
  [][ \A i \in 1 .. Len(bursts) :
        LET k == BurstAt(bursts', bursts[i].uid)
        IN (bursts[i].exploded /\ k # 0)
           => /\ bursts'[k].position = bursts[i].position
              /\ bursts'[k].velocity = bursts[i].velocity
              /\ bursts'[k].age = bursts[i].age
              /\ bursts'[k].fuseTime = bursts[i].fuseTime
              /\ bursts'[k].type = bursts[i].type
              /\ Len(bursts'[k].indices) <= Len(bursts[i].indices)
              /\ Listed(bursts'[k]) \subseteq Listed(bursts[i])
              /\ \A s \in Listed(bursts[i]) \ Listed(bursts'[k]) :
                   /\ writtenFor[s] = bursts[i].uid
                   /\ Occurrences(freeIndices, s) = 0
                   /\ Occurrences(freeIndices', s) = 1 ]_vars

\* C28 witness: between frames an exploded burst lists fewer slots than its
\* explosion obtained (one of its particles has been released) and still lists one.
C28_Witness ==
  /\ pc = "idle"
  /\ \E i \in 1 .. Len(bursts) :
       /\ bursts[i].exploded
       /\ Len(bursts[i].indices) > 0
       /\ Len(bursts[i].indices) < bursts[i].sparks

\* the burst with this uid is in the collection and has not exploded
InFlightUid(u) == \E i \in 1 .. Len(bursts) : bursts[i].uid = u /\ ~bursts[i].exploded

\* C26: while frames keep coming with a positive delta (the engine is not disposed),
\* every burst of the collection that has not exploded eventually explodes.
C26_EveryBurstExplodes ==
  \A u \in 1 .. MaxBursts : InFlightUid(u) ~> (~InFlightUid(u) \/ disposed)

\* C26 witness: frames have run, one burst has exploded on its fuse or its altitude
\* and is still in the collection, and no exception has stopped the frames.
C26_Witness ==
  /\ sunkAge = << >> /\ runs = << >>
  /\ pc = "idle"
  /\ ~disposed /\ ~thrown
  /\ \E i \in 1 .. Len(bursts) : bursts[i].exploded /\ ShouldExplode(bursts[i])

\* C31: in the burst-loop step of a burst that has not exploded, the index list
\* gains at most one slot when the burst does not explode in that step, none when
\* reduce-motion was requested for the burst, and the slot gained is owned by the
\* burst (its owners entry is the burst's id); when the burst explodes in that step
\* every slot gained comes from the explosion, none from the trail.
C31_TrailEmission ==
  [][ BurstStep =>
        LET b == bursts[bi]
            k == BurstAt(bursts', b.uid)
        IN (~b.exploded /\ k # 0)
           => LET gained == Len(bursts'[k].indices) - Len(b.indices)
              IN IF bursts'[k].exploded
                 THEN gained = bursts'[k].sparks - b.sparks
                 ELSE /\ gained \in {0, 1}
                      /\ b.reduceMotion => gained = 0
                      /\ gained = 1
                         => LET s == bursts'[k].indices[Len(bursts'[k].indices)]
                            IN /\ owners'[s] = b.id
                               /\ writtenFor'[s] = b.uid
                               /\ Occurrences(activeIndices', s) = 1 ]_vars

\* C32: for every slot written for a burst that is in the collection, the value
\* read back from owners equals the burst's id, the key under which burstMap holds
\* the burst.
C32_OwnerIsBurstId ==
  \A s \in Slots :
    writtenFor[s] # 0
    => \A i \in 1 .. Len(bursts) : bursts[i].uid = writtenFor[s] => owners[s] = bursts[i].id

\* C33: between frames burstMap holds exactly the bursts of the collection: every
\* burst of the collection is the value stored under its own id, and every key of
\* the map leads to a burst of the collection.
C33_MapMatchesCollection ==
  pc \in {"ctor", "idle"} =>
    /\ \A i \in 1 .. Len(bursts) : burstMap[bursts[i].id] = bursts[i].uid
    /\ \A id \in IdValues : burstMap[id] # 0 => BurstAt(bursts, burstMap[id]) # 0

\* C34: once the cleanup of the canvas component's effect has disposed the engine
\* (unmount, or a re-run of the effect that constructs the next engine), the engine
\* begins no further frame, so that at most one tick loop runs for the canvas.
C34_DisposedEngineStops ==
  [][ disposed => ~(pc = "idle" /\ pc' = "floor") ]_vars

\* C35: while clickToBurst is disabled no pointer event spawns a burst, whatever
\* pointer events and setting changes came before.
C35_NoSpawnWhileDisabled ==
  [][ (pc = "idle" /\ pc' = "idle" /\ ~interaction.clickToBurst)
        => Len(bursts') <= Len(bursts) ]_vars

C36_WitnessNoneEnabled ==
  /\ settings.enabled = {}
  /\ pc = "scheduled"
  /\ spawnLog.attempted = 1
  /\ Len(bursts) >= 1

\* C37: pickPaletteColor never returns a colour of weight 0 when some other colour of
\* the palette has a positive weight, whatever the generator returns.
C37_ZeroWeightNeverPicked ==
  picked # << >> =>
    LET palette == settings.palettes
    IN \A i \in 1 .. Len(palette) :
         (/\ palette[i].color = picked.color
          /\ palette[i].weight = 0
          /\ \E j \in 1 .. Len(palette) : j # i /\ palette[j].weight > 0)
         => FALSE

\* C38: every step that spawns a burst (floor loop, rate schedule, pointer trigger) sets
\* nextBurstTime to the clock plus a stagger between staggerMin and staggerMax divided
\* by the rate, which is not before the clock when the stagger is not negative.
C38_SpawnReschedules ==
  [][ Len(bursts') > Len(bursts)
      => /\ \E sd \in StaggerDraws :
              nextBurstTime' = elapsed + (lerp(settings.staggerMin, settings.staggerMax, sd, 2) * 5)
                                           \div Max(1, 5 * globalRate)
         /\ (settings.staggerMin >= 0 /\ settings.staggerMax >= 0) => nextBurstTime' >= elapsed ]_vars

\* a pointer trigger has just spawned a burst and the next rate-scheduled spawn is a
\* whole stagger away
C38_Witness ==
  /\ pc = "idle"
  /\ triggerAdded = 1
  /\ settings.staggerMin > 0
  /\ nextBurstTime = elapsed + settings.staggerMin

\* C39: a burst whose explosion allocates no particle and that owns no live trail
\* particle is removed from the collection and from the id map in the burst-loop step
\* of its explosion, so that no later scheduler step counts it as visible.
C39_EmptyExplosionRemoved ==
  [][ (/\ BurstStep
       /\ ~bursts[bi].exploded
       /\ ExplosionDue(bursts[bi], delta)
       /\ \A s \in Slots : writtenFor[s] # bursts[bi].uid /\ writtenFor'[s] # bursts[bi].uid)
      => /\ BurstAt(bursts', bursts[bi].uid) = 0
         /\ burstMap'[bursts[bi].id] # bursts[bi].uid ]_vars

====
